---- MODULE Spec2Model ----
(***************************************************************************)
(* Acquisition -> progress -> delivery pipeline of Modules/core.py:        *)
(*   - the per-message edit lock (_locked_edit, _schedule_edit),           *)
(*   - the subprocess streamer (download_video),                           *)
(*   - the uploader (send_vid) with its post-processing helpers.           *)
(*   - the progress-line parser (_parse_yt_line),                          *)
(* and the upload progress callback of Modules/utils.py (progress_bar).    *)
(* Time is counted in tenths of a second.  Text is a sequence of tokens;   *)
(* "x in s" of the source is token membership.                             *)
(***************************************************************************)
EXTENDS Integers, Sequences, FiniteSets, TLC

\* ------------------------------------------------------------ bounds
NumKeys == 2
MaxTasks == 2
MaxClock == 37
\* the clock bound of the progress_bar runs
PbMaxClock == 53
\* the clock bound of the runs with an evicted progress line
ForceMaxClock == 41
\* the number of calls of the progress_bar runs
MaxCalls == 3
MaxReads == 2
\* reads of the runs that fill the buffers of download_video
MaxBufReads == 6
\* pieces of output in a line handed to _parse_yt_line
MaxSegs == 4
\* the wait, in seconds, a FloodWait carries
FloodX == 1
\* granularity of the clock: time is observed every TickStep tenths of a second
TickStep == 4

\* ------------------------------------------------------------ program constants
Backoff == 8
Throttle == 12
\* utils.py: the interval of progress_bar, 2.5 s
PbInterval == 25

\* time.time() at the start of a run: far beyond every throttle interval
Epoch == PbInterval

Keys == 1..NumKeys
NoMsg == 0
Targets == Keys \cup {NoMsg}

VARIABLES now, tasks, _edit_locks, _last_edit_ts, _dead_messages, dl, fs, sv, yt, pb

vars == <<now, tasks, _edit_locks, _last_edit_ts, _dead_messages, dl, fs, sv, yt, pb>>

\* ------------------------------------------------------------ edit locking
\* Outcome of one msg_obj.edit call: "ok" or the class name of the exception.
EditOutcomes == {"ok", "MessageIdInvalid", "PeerIdInvalid", "FloodWait"}

_msg_key_mut(msg_obj) == 1

\* (chat id, message id) of the message: a message is named by its own identity
_msg_key(msg_obj) == msg_obj

IsPermanent_mut(e) == e = "MessageIdInvalid"

\* e.__class__.__name__ in ("MessageIdInvalid", "PeerIdInvalid")
IsPermanent(e) == e \in {"MessageIdInvalid", "PeerIdInvalid"}

DeadAfter_mut(dead, key, e) == dead \cup {key}

\* the dead set after a failed call with exception e
DeadAfter(dead, key, e) == IF IsPermanent(e) THEN dead \cup {key} ELSE dead

DeadAfterOk_mut(dead, key) == dead \ {key}

\* the dead set after a successful call: the success path does not touch it
DeadAfterOk(dead, key) == dead

\* asyncio.Lock(): not locked, no waiters; id tells lock objects apart
NewLock == [locked |-> FALSE, waiters |-> <<>>, id |-> 0]

LockFor_mut(L, key, i) == (key :> [NewLock EXCEPT !.id = i]) @@ L

\* the registry after _edit_locks.get(key) and, when that gave None, the store
\* of a new lock (made by task i); no suspension lies between the two
LockFor(L, key, i) ==
    IF key \in DOMAIN L THEN L ELSE L @@ (key :> [NewLock EXCEPT !.id = i])

CanAcquire_mut(lock) == lock.waiters = <<>>

\* Lock.acquire takes the lock at once only when it is free and nobody queues
CanAcquire(lock) == ~lock.locked /\ lock.waiters = <<>>

\* the coroutine object handed to create_task; it has not run yet
NewTask(msg_obj, text) ==
    [msg |-> msg_obj, text |-> text, pc |-> "start", calls |-> 0,
     e1 |-> "none", e2 |-> "none", ret |-> "none", wake |-> 0, lk |-> 0]

_schedule_edit(T, msg_obj, text) == Append(T, NewTask(msg_obj, text))

CanStart_mut(T, i) == TRUE

\* create_task puts the coroutine's first step on the loop's ready queue, and
\* the loop runs that queue in order: a task starts after those made before it
CanStart(T, i) == \A j \in 1..(i - 1) : T[j].pc # "start"

InFlight(t) == t.pc \in {"edit1", "edit2"}
HoldsLock(t) == t.pc \in {"edit1", "sleep", "edit2"}

RemoveWaiter(w, i) == SelectSeq(w, LAMBDA j : j # i)

\* Lock.release: unlock, then wake the first waiter that is still pending
WakeFirst(T, key) ==
    LET w == _edit_locks[key].waiters
    IN  IF w # <<>> /\ T[Head(w)].pc = "wait"
        THEN [T EXCEPT ![Head(w)].pc = "woken"]
        ELSE T

Release_mut(L, key) == L

\* leaving `async with lock`, by return or by exception: the lock is unlocked
Release(L, key) == [L EXCEPT ![key].locked = FALSE]

Returned_mut(e) == IF e = "ok" THEN "True" ELSE IF e = "FloodWait" THEN "raise" ELSE "False"

\* what _locked_edit hands back after its last edit call ended with outcome e:
\* every exception is caught and turned into False
Returned(e) == IF e = "ok" THEN "True" ELSE "False"

\* _locked_edit up to its first suspension
StartTask(i) ==
    /\ tasks[i].pc = "start"
    /\ CanStart(tasks, i)
    /\ LET key == _msg_key(tasks[i].msg)
       IN  IF tasks[i].msg = NoMsg \/ key \in _dead_messages
           THEN /\ tasks' = [tasks EXCEPT ![i].pc = "done", ![i].ret = "False"]
                /\ UNCHANGED _edit_locks
           ELSE LET L == LockFor(_edit_locks, key, i)
                IN  IF CanAcquire(L[key])
                    THEN /\ _edit_locks' = [L EXCEPT ![key].locked = TRUE]
                         /\ tasks' = [tasks EXCEPT ![i].pc = "edit1", ![i].calls = 1,
                                                   ![i].lk = L[key].id]
                    ELSE /\ _edit_locks' = [L EXCEPT ![key].waiters = Append(@, i)]
                         /\ tasks' = [tasks EXCEPT ![i].pc = "wait",
                                                   ![i].lk = L[key].id]
    /\ UNCHANGED <<now, _last_edit_ts, _dead_messages, dl, fs, sv, yt, pb>>

\* a woken waiter leaves the queue, takes the lock and starts its edit
Wake(i) ==
    /\ tasks[i].pc = "woken"
    /\ LET key == _msg_key(tasks[i].msg)
       IN  _edit_locks' = [_edit_locks EXCEPT ![key].locked = TRUE,
                                               ![key].waiters = RemoveWaiter(@, i)]
    /\ tasks' = [tasks EXCEPT ![i].pc = "edit1", ![i].calls = 1]
    /\ UNCHANGED <<now, _last_edit_ts, _dead_messages, dl, fs, sv, yt, pb>>

\* the first msg_obj.edit call completes with outcome e
EditReturn(i, e) ==
    /\ tasks[i].pc = "edit1"
    /\ LET key == _msg_key(tasks[i].msg)
       IN  IF e = "ok"
           THEN /\ _last_edit_ts' = [k \in DOMAIN _last_edit_ts \cup {key} |->
                                        IF k = key THEN now ELSE _last_edit_ts[k]]
                /\ tasks' = WakeFirst([tasks EXCEPT ![i].pc = "done", ![i].e1 = e,
                                                    ![i].ret = Returned(e)], key)
                /\ _edit_locks' = Release(_edit_locks, key)
                /\ _dead_messages' = DeadAfterOk(_dead_messages, key)
           ELSE IF IsPermanent(e)
           THEN /\ _dead_messages' = DeadAfter(_dead_messages, key, e)
                /\ tasks' = WakeFirst([tasks EXCEPT ![i].pc = "done", ![i].e1 = e,
                                                    ![i].ret = Returned(e)], key)
                /\ _edit_locks' = Release(_edit_locks, key)
                /\ UNCHANGED _last_edit_ts
           ELSE /\ tasks' = [tasks EXCEPT ![i].pc = "sleep", ![i].e1 = e,
                                          ![i].wake = now + Backoff]
                /\ UNCHANGED <<_edit_locks, _last_edit_ts, _dead_messages>>
    /\ UNCHANGED <<now, dl, fs, sv, yt, pb>>

\* asyncio.sleep(0.8) is over: the retry call starts
SleepDone(i) ==
    /\ tasks[i].pc = "sleep"
    /\ now >= tasks[i].wake
    /\ tasks' = [tasks EXCEPT ![i].pc = "edit2", ![i].calls = 2, ![i].wake = 0]
    /\ UNCHANGED <<now, _edit_locks, _last_edit_ts, _dead_messages, dl, fs, sv, yt, pb>>

\* the retry call completes with outcome e
RetryReturn(i, e) ==
    /\ tasks[i].pc = "edit2"
    /\ LET key == _msg_key(tasks[i].msg)
       IN  /\ IF e = "ok"
              THEN /\ _last_edit_ts' = [k \in DOMAIN _last_edit_ts \cup {key} |->
                                           IF k = key THEN now ELSE _last_edit_ts[k]]
                   /\ _dead_messages' = DeadAfterOk(_dead_messages, key)
              ELSE /\ _dead_messages' = DeadAfter(_dead_messages, key, e)
                   /\ UNCHANGED _last_edit_ts
           /\ tasks' = WakeFirst([tasks EXCEPT ![i].pc = "done", ![i].e2 = e,
                                     ![i].ret = Returned(e)], key)
           /\ _edit_locks' = Release(_edit_locks, key)
    /\ UNCHANGED <<now, dl, fs, sv, yt, pb>>

\* ------------------------------------------------------------ text
\* the substrings of interest that a token contains (case-sensitive)
Sub(tok) ==
    CASE tok = "[download]" -> {"[download]"}
      [] tok \in {"0.0%", "50.0%", "100.0%"} -> {"%"}
      [] tok = "eta" -> {"eta"}
      [] tok = "frag" -> {"frag"}
      [] tok = "downloading" -> {"downloading"}
      [] OTHER -> {}

\* str.lower() of a token
Lower(tok) ==
    CASE tok = "ETA" -> "eta"
      [] tok = "Destination" -> "destination"
      [] tok = "Downloading" -> "downloading"
      [] OTHER -> tok

LowerText(s) == [i \in DOMAIN s |-> Lower(s[i])]

\* m in s
Contains(s, m) == \E i \in DOMAIN s : m \in Sub(s[i])

\* bytes.decode(errors="ignore"): undecodable bytes are dropped
Decode(chunk) == SelectSeq(chunk, LAMBDA b : b # "xFF")

RECURSIVE Split(_)
\* str.split("\n")
Split(s) ==
    IF \A i \in DOMAIN s : s[i] # "\n"
    THEN <<s>>
    ELSE LET i == CHOOSE j \in DOMAIN s :
                     s[j] = "\n" /\ \A l \in 1..(j - 1) : s[l] # "\n"
         IN  <<SubSeq(s, 1, i - 1)>> \o Split(SubSeq(s, i + 1, Len(s)))

LastN_mut(s, n) == s

\* s[-n:]
LastN(s, n) == IF Len(s) > n THEN SubSeq(s, Len(s) - n + 1, Len(s)) ELSE s

\* None and the empty string: both are false in a condition
NoLine == <<>>

\* ------------------------------------------------------------ progress formatting
TotalBlocks == 18

\* float(group(1)) of (\d{1,3}\.\d+)% in a token, in tenths of a percent
PercentOf(tok) ==
    CASE tok = "50.0%" -> 500
      [] tok = "100.0%" -> 1000
      [] OTHER -> 0

\* the words of downloader output
Toks ==
    {"[download]", "Destination", "Downloading", "downloading", "frag", "eta", "x",
     "0.0%", "50.0%", "100.0%", "of ~", "5MiB", "at", "1MiB/s", "ETA", "00:05"}

\* what ([0-9.,A-Za-z]+) takes from the start of a token, "" when nothing
SizeOf(tok) ==
    CASE tok \in {"Destination", "Downloading", "downloading", "frag", "eta", "x",
                  "5MiB", "at", "ETA"} -> tok
      [] tok = "0.0%" -> "0.0"
      [] tok = "50.0%" -> "50.0"
      [] tok = "100.0%" -> "100.0"
      [] tok = "of ~" -> "of"
      [] tok = "1MiB/s" -> "1MiB"
      [] tok = "00:05" -> "00"
      [] OTHER -> ""

\* what ([0-9.,A-Za-z]+/s) takes from the start of a token
SpeedOf(tok) == IF tok = "1MiB/s" THEN tok ELSE ""

\* what ([0-9:]+) takes from the start of a token
EtaOf(tok) ==
    CASE tok = "00:05" -> tok
      [] tok = "0.0%" -> "0"
      [] tok = "50.0%" -> "50"
      [] tok = "100.0%" -> "100"
      [] tok = "5MiB" -> "5"
      [] tok = "1MiB/s" -> "1"
      [] OTHER -> ""

SizeToks == {tok \in Toks : SizeOf(tok) # ""}
SpeedToks == {tok \in Toks : SpeedOf(tok) # ""}
EtaToks == {tok \in Toks : EtaOf(tok) # ""}

\* the token behind the first match of <<lead, one of follow>>, "" without a match
After(line, lead, follow) ==
    LET I == {i \in 1..(Len(line) - 1) : line[i] = lead /\ line[i + 1] \in follow}
    IN  IF I = {} THEN "" ELSE line[(CHOOSE i \in I : \A j \in I : i <= j) + 1]

\* f"{percent:.2f}%"
Fmt2(percent) ==
    CASE percent = 500 -> "50.00%"
      [] percent = 1000 -> "100.00%"
      [] OTHER -> "0.00%"

\* percent is kept in tenths of a percent
_parse_yt_line(line) ==
    LET P == {i \in DOMAIN line : "%" \in Sub(line[i])}
        percent == IF P = {} THEN 0
                   ELSE PercentOf(line[CHOOSE i \in P : \A j \in P : i <= j])
        total == SizeOf(After(line, "of ~", SizeToks))
    IN  [percent |-> percent,
         processed |-> IF percent # 0 /\ total # "" THEN Fmt2(percent) ELSE "",
         total |-> total,
         speed |-> SpeedOf(After(line, "at", SpeedToks)),
         eta |-> EtaOf(After(line, "ETA", EtaToks))]

\* the length of ch * n: a negative count gives the empty string
Times(n) == IF n > 0 THEN n ELSE 0

\* the bar is kept as its two runs of characters: filled, then empty
_format_progress_lines(p) ==
    [filled |-> Times((p.percent * TotalBlocks) \div 1000),
     empty |-> Times(TotalBlocks - (p.percent * TotalBlocks) \div 1000),
     perc |-> p.percent, speed |-> p.speed, processed |-> p.processed,
     total |-> p.total, eta |-> p.eta]

Render(line) == _format_progress_lines(_parse_yt_line(line))

\* ------------------------------------------------------------ file system
ExtToks == {".mp4", ".mkv", ".webm", ".m4a", ".mp3", ".pdf", ".tmp", ".jpg"}

\* os.path.splitext: <<root, ext>>
splitext(p) ==
    IF Len(p) > 1 /\ p[Len(p)] \in ExtToks
    THEN <<SubSeq(p, 1, Len(p) - 1), <<p[Len(p)]>> >>
    ELSE <<p, <<>> >>

isfile(F, p) == p \in DOMAIN F /\ F[p] = "file"

\* str.startswith
startswith(f, prefix) ==
    Len(f) >= Len(prefix) /\ SubSeq(f, 1, Len(prefix)) = prefix

\* ------------------------------------------------------------ download_video
False == <<"False">>

TailCap == 80
BufCap == 20000
\* proc.stdout.read(4096)
ChunkMax == 4096

LoopMarkers == {"[download]", "%", "eta", "frag", "downloading"}
FinalMarkers == {"%", "eta", "frag"}

\* the element of lines at the largest index of I, NoLine when I is empty
LastAt(lines, I) ==
    IF I = {} THEN NoLine ELSE lines[CHOOSE i \in I : \A j \in I : j <= i]

LoopQualifies(t) == \E m \in LoopMarkers : Contains(LowerText(t), m)

FinalQualifies(t) == \E m \in FinalMarkers : Contains(t, m)

\* for t in reversed(tail_lines): the first line with a marker of the loop
LastLoopLine(lines) == LastAt(lines, {i \in DOMAIN lines : LoopQualifies(lines[i])})

\* for t in reversed(tail_lines): the first line with a marker of the final update
LastFinalLine(lines) == LastAt(lines, {i \in DOMAIN lines : FinalQualifies(lines[i])})

LoopLine_mut(tail_lines, buf) ==
    IF buf # <<>> /\ (Contains(buf, "%") \/ Contains(buf, "eta"))
    THEN buf
    ELSE LastLoopLine(tail_lines)

\* the progress line the streaming loop picks from the buffers
LoopLine(tail_lines, buf) ==
    LET l == LastLoopLine(tail_lines)
    IN  IF l = NoLine /\ buf # <<>> /\ (Contains(buf, "%") \/ Contains(buf, "eta"))
        THEN buf
        ELSE l

\* send: a qualifying line was found, or the throttle interval has elapsed
Send(tail_lines, buf, t, last_edit) ==
    \/ LastLoopLine(tail_lines) # NoLine
    \/ (buf # <<>> /\ (Contains(buf, "%") \/ Contains(buf, "eta")))
    \/ (t - last_edit) >= Throttle

\* the line of the final update
FinalLine(tail_lines, buf) ==
    LET l == LastFinalLine(tail_lines)
    IN  IF l = NoLine /\ buf # <<>> THEN buf ELSE l

Candidates_mut(out_path) ==
    LET base == splitext(out_path)[1]
        ext == splitext(out_path)[2]
    IN  (IF ext # <<>> THEN <<out_path>> ELSE <<>>)
        \o <<base \o <<".mp4">>, base \o <<".mkv">>, base \o <<".webm">>,
             base \o <<".m4a">>, base \o <<".mp3">>, base \o <<".pdf">>, base>>

\* the candidate paths, in the order they are tried
Candidates(out_path) ==
    LET base == splitext(out_path)[1]
        ext == splitext(out_path)[2]
    IN  <<base>> \o (IF ext # <<>> THEN <<out_path>> ELSE <<>>)
        \o <<base \o <<".mp4">>, base \o <<".mkv">>, base \o <<".webm">>,
             base \o <<".m4a">>, base \o <<".mp3">>, base \o <<".pdf">> >>

\* the values download_video can return after exit code 0 on file system F;
\* os.listdir yields the directory's entries in no particular order
Resolve(F, out_path) ==
    LET c == Candidates(out_path)
        I == {i \in DOMAIN c : isfile(F, c[i])}
        prefix == splitext(out_path)[1]
        M == {f \in DOMAIN F : startswith(f, prefix) /\ isfile(F, f)}
    IN  IF I # {} THEN {c[CHOOSE i \in I : \A j \in I : i <= j]}
        ELSE IF M # {} THEN M
        ELSE {False}

AfterSchedule_mut == "awaitEdit"

\* where the loop stands once _schedule_edit has returned: create_task only
\* registers the coroutine, so the loop is back at its read
AfterSchedule == "read"

\* "\n" in buf
HasNewline(s) == \E i \in DOMAIN s : s[i] = "\n"

\* create_subprocess_shell returns or raises
DlSpawn(ok) ==
    /\ dl.pc = "spawn"
    /\ dl' = IF ok THEN [dl EXCEPT !.pc = "read"]
             ELSE [dl EXCEPT !.pc = "done", !.ret = False]
    /\ UNCHANGED <<now, tasks, _edit_locks, _last_edit_ts, _dead_messages, fs, sv, yt, pb>>

\* proc.stdout.read returns a non-empty chunk: one iteration of the loop
DlRead(chunk) ==
    /\ dl.pc = "read"
    /\ LET text == Decode(chunk)
           b == dl.buf \o text
           nl == HasNewline(b)
           parts == Split(b)
           buf == IF nl THEN parts[Len(parts)] ELSE LastN(b, BufCap)
           tail_lines == IF nl
                         THEN LastN(dl.tail_lines \o SubSeq(parts, 1, Len(parts) - 1), TailCap)
                         ELSE dl.tail_lines
           last_line == LoopLine(tail_lines, buf)
           fire == /\ Send(tail_lines, buf, now, dl.last_edit)
                   /\ dl.prog # NoMsg
                   /\ last_line # NoLine
       IN  /\ dl' = [dl EXCEPT !.buf = buf, !.tail_lines = tail_lines,
                               !.all = IF nl THEN @ \o SubSeq(parts, 1, Len(parts) - 1)
                                       ELSE @,
                               !.pc = IF fire THEN AfterSchedule ELSE @,
                               !.reads = @ + 1,
                               !.last_edit = IF fire THEN now ELSE @,
                               !.log = IF fire
                                       THEN Append(@, [at |-> now, final |-> FALSE,
                                                       line |-> last_line])
                                       ELSE @]
           /\ tasks' = IF fire THEN _schedule_edit(tasks, dl.prog, Render(last_line))
                       ELSE tasks
    /\ UNCHANGED <<now, _edit_locks, _last_edit_ts, _dead_messages, fs, sv, yt, pb>>

\* proc.stdout.read returns b"": the loop ends and proc.wait() is awaited
DlEof ==
    /\ dl.pc = "read"
    /\ dl' = [dl EXCEPT !.pc = "wait"]
    /\ UNCHANGED <<now, tasks, _edit_locks, _last_edit_ts, _dead_messages, fs, sv, yt, pb>>

StreamFailure_mut(kill_ok) == IF kill_ok THEN False ELSE <<"raise">>

\* how the call ends after the kill attempt: `except: pass` swallows whatever
\* proc.kill() raises, then return False
StreamFailure(kill_ok) == False

\* reading or waiting raises: proc.kill() is called (and returns or raises in its
\* turn), the run fails
DlStreamError(kill_ok) ==
    /\ dl.pc \in {"read", "wait"}
    /\ dl' = [dl EXCEPT !.pc = "done", !.ret = StreamFailure(kill_ok), !.killed = TRUE,
                        !.kill_raised = ~kill_ok]
    /\ UNCHANGED <<now, tasks, _edit_locks, _last_edit_ts, _dead_messages, fs, sv, yt, pb>>

\* proc.wait() returns rc; F is what the child left in the destination directory
DlWait(rc, F) ==
    /\ dl.pc = "wait"
    /\ fs' = F
    /\ LET last_line == IF dl.prog # NoMsg /\ (dl.tail_lines # <<>> \/ dl.buf # <<>>)
                        THEN FinalLine(dl.tail_lines, dl.buf)
                        ELSE NoLine
           fire == last_line # NoLine
       IN  /\ tasks' = IF fire THEN _schedule_edit(tasks, dl.prog, Render(last_line))
                       ELSE tasks
           /\ \E r \in (IF rc # 0 THEN {False} ELSE Resolve(F, dl.out_path)) :
                 dl' = [dl EXCEPT !.pc = "done", !.exited = TRUE, !.rc = rc, !.ret = r,
                                  !.log = IF fire
                                          THEN Append(@, [at |-> now, final |-> TRUE,
                                                          line |-> last_line])
                                          ELSE @]
    /\ UNCHANGED <<now, _edit_locks, _last_edit_ts, _dead_messages, sv, yt, pb>>

\* ------------------------------------------------------------ send_vid
None == <<>>

\* the files a path set F loses / gains
Remove(F, p) == [n \in DOMAIN F \ {p} |-> F[n]]
WriteFile(F, p) == [n \in DOMAIN F \cup {p} |-> IF n = p THEN "file" ELSE F[n]]

\* f"{base}.thumb.jpg"
ThumbPathOf(video_path) == splitext(video_path)[1] \o <<".thumb.jpg">>

\* f"{base}.fixed.mp4"
FixedPathOf(infile) == splitext(infile)[1] \o <<".fixed.mp4">>

\* generate_thumbnail_from_video: ffmpeg exits with rc and has or has not written
\* the thumbnail file; <<result, file system>>
generate_thumbnail_from_video(F, video_path, rc, wrote) ==
    LET thumb_path == ThumbPathOf(video_path)
        G == IF wrote THEN WriteFile(F, thumb_path) ELSE F
    IN  <<IF rc = 0 /\ isfile(G, thumb_path) THEN thumb_path ELSE None, G>>

_fix_rotation_mut(F, infile, rot, rc, wrote) ==
    LET fixed == FixedPathOf(infile)
        G == IF rot \notin {"", "raise"} /\ wrote THEN WriteFile(F, fixed) ELSE F
    IN  <<IF rot \notin {"", "raise"} /\ isfile(G, fixed) THEN fixed ELSE None, G>>

\* _fix_rotation: rot is the probed rotate tag ("" when absent, "raise" when the
\* probe raises); ffmpeg exits with rc and has or has not written the copy
_fix_rotation(F, infile, rot, rc, wrote) ==
    LET fixed == FixedPathOf(infile)
        G == IF rot \notin {"", "raise"} /\ wrote THEN WriteFile(F, fixed) ELSE F
    IN  <<IF rot \notin {"", "raise"} /\ rc = 0 /\ isfile(G, fixed) THEN fixed ELSE None, G>>

GeneratedOf_mut(thumb, own, gen) == IF own THEN thumb ELSE gen

\* generated_thumb: set only on the branch that generates a thumbnail
GeneratedOf(thumb, own, gen) == IF own THEN None ELSE gen

Cleanup_mut(F, s) ==
    LET F2 == IF s.generated_thumb # None /\ isfile(F, s.generated_thumb)
              THEN Remove(F, s.generated_thumb) ELSE F
    IN  IF isfile(F2, s.filename) THEN Remove(F2, s.filename) ELSE F2

\* the three removals that follow the upload step
Cleanup(F, s) ==
    LET F1 == IF s.fixed_file # None /\ isfile(F, s.fixed_file)
              THEN Remove(F, s.fixed_file) ELSE F
        F2 == IF s.generated_thumb # None /\ isfile(F1, s.generated_thumb)
              THEN Remove(F1, s.generated_thumb) ELSE F1
    IN  IF isfile(F2, s.filename) THEN Remove(F2, s.filename) ELSE F2

\* the paths os.remove was called on
Removed(F, s) == DOMAIN F \ DOMAIN Cleanup(F, s)

MoreAttempts_mut(attempt, attempts) == attempt + 1 <= attempts

\* for attempt in range(attempts): is there another iteration
MoreAttempts(attempt, attempts) == attempt + 1 < attempts

AttemptsOf(kind) == IF kind = "video" THEN 2 ELSE 1

SentOkAfter_mut(kind, ok) == kind = "video" /\ ok

\* sent_ok after try_upload of the given kind returned ok
SentOkAfter(kind, ok) == ok

\* an ffprobe call gives its value, or fails (it raises, times out or prints
\* nothing usable)
ProbeOutcomes == {"ok", "fail"}

_probe_video_metadata_mut(o) == IF o = "ok" THEN "known" ELSE "raise"

\* width and height: every failure ends in 0, 0; nothing is raised
_probe_video_metadata(o) == IF o = "ok" THEN "known" ELSE "zero"

\* duration: every failure ends in 0; nothing is raised
duration(o) == IF o = "ok" THEN "known" ELSE "zero"

StartSend_mut(s, kind, attempt, d) ==
    [s EXCEPT !.pc = "send", !.kind = kind, !.attempt = attempt,
              !.probed = IF kind = "video" THEN s.filename ELSE @,
              !.sends = Append(@, [kind |-> kind, file |-> s.filename,
                                   thumb |-> s.thumb_path, o |-> "pending",
                                   dims |-> IF kind = "video" /\ s.dims = "known"
                                            THEN "known" ELSE "none",
                                   duro |-> IF kind = "video" THEN d ELSE "none",
                                   dur |-> IF kind = "video" THEN duration(d)
                                           ELSE "none"])]

\* bot.send_video / bot.send_document is called on use_file; a video attempt
\* probes the duration of use_file first (outcome d), as line 433 probed its
\* width and height; a width or height of 0 is passed as None
StartSend(s, kind, attempt, d) ==
    [s EXCEPT !.pc = "send", !.kind = kind, !.attempt = attempt,
              !.probed = IF kind = "video" THEN s.use_file ELSE @,
              !.sends = Append(@, [kind |-> kind, file |-> s.use_file,
                                   thumb |-> s.thumb_path, o |-> "pending",
                                   dims |-> IF kind = "video" /\ s.dims = "known"
                                            THEN "known" ELSE "none",
                                   duro |-> IF kind = "video" THEN d ELSE "none",
                                   dur |-> IF kind = "video" THEN duration(d)
                                           ELSE "none"])]

\* the upload step is over: clean up, then delete the reply message and return
EndUpload(s, ok) ==
    [s EXCEPT !.sent_ok = ok,
              !.removed = Removed(fs, s),
              !.pc = IF s.reply_msg THEN "replyDelete" ELSE "done",
              !.ret = IF s.reply_msg THEN @ ELSE IF ok THEN "True" ELSE "False"]

\* prog.delete is over; the source file is checked
SvBegin ==
    /\ sv.pc = "start"
    /\ sv' = [sv EXCEPT !.pc = IF isfile(fs, sv.filename) THEN "replyUploading"
                               ELSE "replyMissing"]
    /\ UNCHANGED <<now, tasks, _edit_locks, _last_edit_ts, _dead_messages, dl, fs, yt, pb>>

\* "Upload failed: file not found" was replied (or the reply raised)
SvMissing ==
    /\ sv.pc = "replyMissing"
    /\ sv' = [sv EXCEPT !.pc = "done", !.ret = "False"]
    /\ UNCHANGED <<now, tasks, _edit_locks, _last_edit_ts, _dead_messages, dl, fs, yt, pb>>

\* the "Uploading" reply returned (replied) or raised; thumbnail, rotation fix and
\* probing (outcome wh) run, and the first send_video call is made after its
\* duration probe (outcome d). Line 433 stands outside every try: an exception
\* out of _probe_video_metadata would end send_vid.
SvPrepare(replied, trc, twrote, rot, frc, fwrote, wh, d) ==
    /\ sv.pc = "replyUploading"
    /\ LET own == sv.thumb # None /\ isfile(fs, sv.thumb)
           gen == IF own THEN <<None, fs>>
                  ELSE generate_thumbnail_from_video(fs, sv.filename, trc, twrote)
           fix == _fix_rotation(gen[2], sv.filename, rot, frc, fwrote)
           s1 == [sv EXCEPT !.reply_msg = replied,
                            !.thumb_path = IF own THEN sv.thumb ELSE gen[1],
                            !.generated_thumb = GeneratedOf(sv.thumb, own, gen[1]),
                            !.rot = rot, !.frc = frc, !.fwrote = fwrote,
                            !.trc = trc, !.twrote = twrote, !.wh = wh,
                            !.dims = _probe_video_metadata(wh),
                            !.fixed_file = fix[1],
                            !.use_file = IF fix[1] # None THEN fix[1] ELSE sv.filename]
       IN  /\ fs' = fix[2]
           /\ sv' = IF s1.dims = "raise"
                    THEN [s1 EXCEPT !.pc = "done", !.ret = "raise"]
                    ELSE StartSend(s1, "video", 0, d)
    /\ UNCHANGED <<now, tasks, _edit_locks, _last_edit_ts, _dead_messages, dl, yt, pb>>

\* the send call in flight returns (o = "ok") or raises FloodWait / another error
SvSendReturn(o) ==
    /\ sv.pc = "send"
    /\ LET s1 == [sv EXCEPT !.sends[Len(sv.sends)].o = o]
       IN  IF o = "ok"
           THEN /\ sv' = EndUpload(s1, SentOkAfter(sv.kind, TRUE))
                /\ fs' = Cleanup(fs, sv)
           ELSE /\ sv' = [s1 EXCEPT !.pc = "sleep",
                                    !.slept = Append(@, IF o = "FloodWait"
                                                        THEN (FloodX + 1) * 10 ELSE 10)]
                /\ UNCHANGED fs
    /\ UNCHANGED <<now, tasks, _edit_locks, _last_edit_ts, _dead_messages, dl, yt, pb>>

\* the sleep after a failed attempt is over: next attempt (with its duration
\* probe, outcome d), or the failure reply
SvSleepDone(d) ==
    /\ sv.pc = "sleep"
    /\ sv' = IF MoreAttempts(sv.attempt, AttemptsOf(sv.kind))
             THEN StartSend(sv, sv.kind, sv.attempt + 1, d)
             ELSE [sv EXCEPT !.pc = "replyFailed"]
    /\ UNCHANGED <<now, tasks, _edit_locks, _last_edit_ts, _dead_messages, dl, fs, yt, pb>>

\* try_upload returns False: fall back to send_document, or end the upload step
SvFailed ==
    /\ sv.pc = "replyFailed"
    /\ IF sv.kind = "video"
       THEN /\ sv' = StartSend(sv, "document", 0, "ok")
            /\ UNCHANGED fs
       ELSE /\ sv' = EndUpload(sv, FALSE)
            /\ fs' = Cleanup(fs, sv)
    /\ UNCHANGED <<now, tasks, _edit_locks, _last_edit_ts, _dead_messages, dl, yt, pb>>

\* reply_msg.delete is over: send_vid returns sent_ok
SvReturn ==
    /\ sv.pc = "replyDelete"
    /\ sv' = [sv EXCEPT !.pc = "done", !.ret = IF sv.sent_ok THEN "True" ELSE "False"]
    /\ UNCHANGED <<now, tasks, _edit_locks, _last_edit_ts, _dead_messages, dl, fs, yt, pb>>

\* some caller schedules an edit (create_task)
Dispatch(msg_obj) ==
    /\ Len(tasks) < MaxTasks
    /\ tasks' = _schedule_edit(tasks, msg_obj, <<>>)
    /\ UNCHANGED <<now, _edit_locks, _last_edit_ts, _dead_messages, dl, fs, sv, yt, pb>>

Tick ==
    /\ now + TickStep <= MaxClock
    /\ now' = now + TickStep
    /\ UNCHANGED <<tasks, _edit_locks, _last_edit_ts, _dead_messages, dl, fs, sv, yt, pb>>

TaskStep ==
    \E i \in DOMAIN tasks :
        \/ StartTask(i)
        \/ Wake(i)
        \/ \E e \in EditOutcomes : EditReturn(i, e)
        \/ SleepDone(i)
        \/ \E e \in EditOutcomes : RetryReturn(i, e)

\* no download_video call
NoDl ==
    [pc |-> "none", prog |-> NoMsg, out_path |-> <<>>, buf |-> <<>>, tail_lines |-> <<>>,
     last_edit |-> 0, reads |-> 0, exited |-> FALSE, rc |-> 0, ret |-> <<>>,
     killed |-> FALSE, kill_raised |-> FALSE, log |-> <<>>, all |-> <<>>]

\* no send_vid call
NoSv ==
    [pc |-> "none", filename |-> <<>>, thumb |-> <<>>, reply_msg |-> FALSE,
     thumb_path |-> <<>>, generated_thumb |-> <<>>, fixed_file |-> <<>>,
     use_file |-> <<>>, probed |-> <<>>, kind |-> "none", attempt |-> 0,
     sent_ok |-> FALSE, ret |-> "none", sends |-> <<>>, slept |-> <<>>,
     removed |-> {}, existed |-> FALSE, rot |-> "", frc |-> 0, fwrote |-> FALSE,
     trc |-> 0, twrote |-> FALSE, wh |-> "ok", dims |-> "none"]

\* no _parse_yt_line call
NoYt ==
    [line |-> <<>>, parsed |-> FALSE,
     out |-> [percent |-> 0, processed |-> "", total |-> "", speed |-> "", eta |-> ""],
     formatted |-> FALSE,
     panel |-> [filled |-> 0, empty |-> 0, perc |-> 0, speed |-> "", processed |-> "",
                total |-> "", eta |-> ""]]

InitEdit ==
    /\ now = Epoch
    /\ tasks = <<>>
    /\ _edit_locks = <<>>
    /\ _last_edit_ts = <<>>
    /\ _dead_messages = {}

Init ==
    /\ InitEdit
    /\ yt = NoYt
    /\ pb = <<>>
    /\ dl = NoDl
    /\ fs = <<>>
    /\ sv = NoSv

Next ==
    \/ \E m \in Targets : Dispatch(m)
    \/ TaskStep
    \/ Tick

Spec == Init /\ [][Next]_vars

\* ---- the edit tasks under a fair scheduler, with time that keeps passing
\* the clock goes on while a task is in its backoff, also beyond MaxClock
LiveTick ==
    /\ \/ now + TickStep <= MaxClock
       \/ \E i \in DOMAIN tasks : tasks[i].pc = "sleep" /\ now < tasks[i].wake
    /\ now' = now + TickStep
    /\ UNCHANGED <<tasks, _edit_locks, _last_edit_ts, _dead_messages, dl, fs, sv, yt, pb>>

\* the messages of these runs: one target, or no message
LiveTargets == {1, NoMsg}

NextLive ==
    \/ \E m \in LiveTargets : Dispatch(m)
    \/ TaskStep
    \/ LiveTick

\* every edit call returns or raises, every runnable task gets to run, and time
\* passes
SpecLive == Init /\ [][NextLive]_vars /\ WF_vars(TaskStep) /\ WF_vars(LiveTick)

\* ---- download_video(cmd, out_path, prog_message) on its own
\* sample chunks of downloader output
Chunks ==
    { <<"[download]", "Destination", "\n">>,
      <<"[download]", "50.0%", "of ~", "5MiB", "at", "1MiB/s", "ETA", "00:05", "\n">>,
      <<"x", "\n">>,
      <<"100.0%", "xFF">>,
      <<"ETA">> }

OutPaths == { <<"x">>, <<"x", ".pdf">> }

\* names the destination directory may hold after the run
Names ==
    { <<"x">>, <<"x", ".mkv">>, <<"x", ".pdf">>, <<"x", "_partial", ".tmp">>,
      <<"y", ".mp4">> }

\* names that may be directories
DirNames == { <<"x">> }

FileSystems ==
    UNION { { [n \in S |-> IF n \in D THEN "dir" ELSE "file"] : D \in SUBSET (S \cap DirNames) }
            : S \in SUBSET Names }

InitDl ==
    /\ InitEdit
    /\ yt = NoYt
    /\ pb = <<>>
    /\ fs = <<>>
    /\ sv = NoSv
    /\ \E m \in {1, NoMsg}, o \in OutPaths :
          dl = [NoDl EXCEPT !.pc = "spawn", !.prog = m, !.out_path = o]

NextDl ==
    \/ \E ok \in BOOLEAN : DlSpawn(ok)
    \/ \E c \in Chunks : dl.reads < MaxReads /\ DlRead(c)
    \/ DlEof
    \/ \E kill_ok \in BOOLEAN : DlStreamError(kill_ok)
    \/ \E rc \in {0, 1}, F \in FileSystems : DlWait(rc, F)
    \/ Tick

SpecDl == InitDl /\ [][NextDl]_vars

\* ---- download_video together with the edit tasks it has scheduled
\* downloader output that leads to a dispatch
EditChunks ==
    { <<"[download]", "50.0%", "of ~", "5MiB", "at", "1MiB/s", "ETA", "00:05", "\n">> }

\* what the child may leave behind: nothing, or the artifact
EditFileSystems == { <<>>, (<<"x", ".mkv">> :> "file") }

InitDlEdit ==
    /\ InitEdit
    /\ yt = NoYt
    /\ pb = <<>>
    /\ fs = <<>>
    /\ sv = NoSv
    /\ dl = [NoDl EXCEPT !.pc = "spawn", !.prog = 1, !.out_path = <<"x">>]

NextDlEdit ==
    \/ \E ok \in BOOLEAN : DlSpawn(ok)
    \/ \E c \in EditChunks : dl.reads < MaxReads /\ DlRead(c)
    \/ DlEof
    \/ \E kill_ok \in BOOLEAN : DlStreamError(kill_ok)
    \/ \E rc \in {0, 1}, F \in EditFileSystems : DlWait(rc, F)
    \/ TaskStep
    \/ Tick

SpecDlEdit == InitDlEdit /\ [][NextDlEdit]_vars

\* the child process is started and closes its output at some time; nothing is
\* assumed about the edit tasks
SpecDlEditLive ==
    /\ SpecDlEdit
    /\ WF_vars(\E ok \in BOOLEAN : DlSpawn(ok))
    /\ WF_vars(DlEof)

\* ---- download_video fed with full chunks; a character is a token here
\* a full chunk without a newline
Fill == [i \in 1..ChunkMax |-> "x"]

\* 85 one-character lines a, b, c, a, ... and then characters without a newline
\* up to the size of a chunk
Burst ==
    [i \in 1..ChunkMax |->
        IF i > 170 THEN "y"
        ELSE IF i % 2 = 0 THEN "\n"
        ELSE <<"a", "b", "c">>[(((i - 1) \div 2) % 3) + 1]]

BufChunks == {Fill, Burst}

InitBuf ==
    /\ InitEdit
    /\ yt = NoYt
    /\ pb = <<>>
    /\ fs = <<>>
    /\ sv = NoSv
    /\ dl = [NoDl EXCEPT !.pc = "spawn", !.prog = 1, !.out_path = <<"x">>]

NextBuf ==
    \/ DlSpawn(TRUE)
    \/ \E c \in BufChunks : dl.reads < MaxBufReads /\ DlRead(c)
    \/ DlEof

SpecBuf == InitBuf /\ [][NextBuf]_vars

\* ---- download_video with a progress line that later output pushes out of the
\* line buffer, and time passing between the reads
ForceChunks ==
    { <<"[download]", "50.0%", "of ~", "5MiB", "at", "1MiB/s", "ETA", "00:05", "\n">>,
      Burst }

\* time passes while the loop awaits the next chunk
ForceTick ==
    /\ dl.pc = "read"
    /\ now + TickStep <= ForceMaxClock
    /\ now' = now + TickStep
    /\ UNCHANGED <<tasks, _edit_locks, _last_edit_ts, _dead_messages, dl, fs, sv, yt, pb>>

NextForce ==
    \/ DlSpawn(TRUE)
    \/ \E c \in ForceChunks : dl.reads < MaxReads /\ DlRead(c)
    \/ DlEof
    \/ ForceTick

SpecForce == InitBuf /\ [][NextForce]_vars

\* ---- utils.progress_bar(current, total, message, start) and its edit tasks.
\* utils.py keeps registries of its own (_edit_locks, _last_edit_time,
\* _dead_messages) and a _locked_edit / _schedule_edit that are the code of
\* core.py line by line; in these runs the registry variables stand for those
\* of utils.py, _last_edit_ts for _last_edit_time.
Throttled_mut(t, last_ts) == (t - last_ts) < Throttle

\* (now - last_ts) < 2.5
Throttled(t, last_ts) == (t - last_ts) < PbInterval

\* the text progress_bar builds; only its being an upload text matters here
UploadText == <<"Uploading">>

\* the messages progress_bar is called with: the upload reply, or no message
PbTargets == {1, NoMsg}

\* one call of progress_bar: it has no await, so it runs in one piece
progress_bar(message) ==
    LET key == _msg_key(message)
        last_ts == IF key \in DOMAIN _last_edit_ts THEN _last_edit_ts[key] ELSE 0
        fire == /\ message # NoMsg
                /\ key \notin _dead_messages
                /\ ~Throttled(now, last_ts)
    IN  /\ pb' = Append(pb, [msg |-> message, at |-> now, last |-> last_ts,
                             scheduled |-> fire])
        /\ tasks' = IF fire THEN _schedule_edit(tasks, message, UploadText) ELSE tasks
        /\ _last_edit_ts' = IF fire
                            THEN [k \in DOMAIN _last_edit_ts \cup {key} |->
                                     IF k = key THEN now ELSE _last_edit_ts[k]]
                            ELSE _last_edit_ts
        /\ UNCHANGED <<now, _edit_locks, _dead_messages, dl, fs, sv, yt>>

PbTick ==
    /\ now + TickStep <= PbMaxClock
    /\ now' = now + TickStep
    /\ UNCHANGED <<tasks, _edit_locks, _last_edit_ts, _dead_messages, dl, fs, sv, yt, pb>>

InitPb ==
    /\ InitEdit
    /\ yt = NoYt
    /\ pb = <<>>
    /\ dl = NoDl
    /\ fs = <<>>
    /\ sv = NoSv

NextPb ==
    \/ \E m \in PbTargets : Len(pb) < MaxCalls /\ progress_bar(m)
    \/ TaskStep
    \/ PbTick

SpecPb == InitPb /\ [][NextPb]_vars

\* ---- _parse_yt_line(line) on its own
\* pieces of downloader output a line is made of
Segs ==
    { <<"0.0%">>, <<"50.0%">>, <<"of ~", "5MiB">>, <<"of ~">>, <<"at", "1MiB/s">>,
      <<"ETA", "00:05">>, <<"x">> }

RECURSIVE Flatten(_)
Flatten(ss) == IF ss = <<>> THEN <<>> ELSE Head(ss) \o Flatten(Tail(ss))

Lines == UNION { {Flatten(ss) : ss \in [1..n -> Segs]} : n \in 0..MaxSegs }

InitParse ==
    /\ InitEdit
    /\ pb = <<>>
    /\ dl = NoDl
    /\ fs = <<>>
    /\ sv = NoSv
    /\ \E l \in Lines : yt = [NoYt EXCEPT !.line = l]

\* _parse_yt_line(line) is called and returns
Parse ==
    /\ ~yt.parsed
    /\ yt' = [yt EXCEPT !.parsed = TRUE, !.out = _parse_yt_line(yt.line)]
    /\ UNCHANGED <<now, tasks, _edit_locks, _last_edit_ts, _dead_messages, dl, fs, sv, pb>>

NextParse == Parse

SpecParse == InitParse /\ [][NextParse]_vars

\* ---- _format_progress_lines on what _parse_yt_line can return
\* the largest value (\d{1,3}\.\d+) can give, in tenths of a percent: 999.9
MaxPercent == 9999

\* the percentages with one fractional digit
Percents == 0..MaxPercent

InitFormat ==
    /\ InitEdit
    /\ pb = <<>>
    /\ dl = NoDl
    /\ fs = <<>>
    /\ sv = NoSv
    /\ \E p \in Percents : yt = [NoYt EXCEPT !.parsed = TRUE, !.out.percent = p]

\* _format_progress_lines(*parsed) is called and returns
Format ==
    /\ yt.parsed /\ ~yt.formatted
    /\ yt' = [yt EXCEPT !.formatted = TRUE, !.panel = _format_progress_lines(yt.out)]
    /\ UNCHANGED <<now, tasks, _edit_locks, _last_edit_ts, _dead_messages, dl, fs, sv, pb>>

NextFormat == Format

SpecFormat == InitFormat /\ [][NextFormat]_vars

\* ---- send_vid(bot, m, cc, filename, thumb, name, prog, target_chat_id) on its own
VideoFile == <<"v", ".mp4">>
CallerThumb == <<"t", ".jpg">>

\* the probed rotate tag: absent, present, or the probe raises (timeout)
RotTags == {"", "90", "raise"}

SendOutcomes == {"ok", "FloodWait", "error"}

InitSend ==
    /\ InitEdit
    /\ yt = NoYt
    /\ pb = <<>>
    /\ dl = NoDl
    /\ \E S \in SUBSET {VideoFile, CallerThumb} : fs = [n \in S |-> "file"]
    /\ \E t \in {None, CallerThumb} :
          sv = [NoSv EXCEPT !.pc = "start", !.filename = VideoFile, !.thumb = t,
                            !.existed = isfile(fs, VideoFile)]

NextSend ==
    \/ SvBegin
    \/ SvMissing
    \/ \E replied \in BOOLEAN, trc \in {0, 1}, twrote \in BOOLEAN, rot \in RotTags,
          frc \in {0, 1}, fwrote \in BOOLEAN, wh \in ProbeOutcomes, d \in ProbeOutcomes :
            SvPrepare(replied, trc, twrote, rot, frc, fwrote, wh, d)
    \/ \E o \in SendOutcomes : SvSendReturn(o)
    \/ \E d \in ProbeOutcomes : SvSleepDone(d)
    \/ SvFailed
    \/ SvReturn

SpecSend == InitSend /\ [][NextSend]_vars

\* ------------------------------------------------------------ claims
TasksFor(k) == {i \in DOMAIN tasks : tasks[i].msg # NoMsg /\ _msg_key(tasks[i].msg) = k}

PermanentNames == {"MessageIdInvalid", "PeerIdInvalid"}

\* C1: for every key at most one dispatch is inside the locked section (edit call
\* in flight, 0.8 s backoff, retry call in flight) at any time.
C1_OneEditInFlight ==
    \A k \in Keys : Cardinality({i \in TasksFor(k) : HoldsLock(tasks[i])}) <= 1

\* a dispatch sleeps in its backoff while another one for the same key queues
C1_Witness ==
    \E k \in Keys : \E i, j \in TasksFor(k) :
        /\ tasks[i].pc = "sleep"
        /\ tasks[j].pc = "wait"

\* C2: once a key is in the dead set no edit call is started for it any more,
\* whichever dispatch it belongs to and whenever that dispatch was scheduled.
C2_NoEditOnceDead ==
    [][\A i \in DOMAIN tasks :
          tasks'[i].calls > tasks[i].calls => tasks[i].msg \notin _dead_messages]_vars

\* C7: a dispatch makes at most two edit calls: one when the first call succeeds
\* or fails with MessageIdInvalid / PeerIdInvalid, two when it fails otherwise.
C7_AtMostOneRetry ==
    \A i \in DOMAIN tasks :
        /\ tasks[i].calls <= 2
        /\ tasks[i].pc = "done" =>
              /\ tasks[i].e1 = "ok" => tasks[i].calls = 1
              /\ tasks[i].e1 \in PermanentNames => tasks[i].calls = 1
              /\ tasks[i].e1 \notin PermanentNames \cup {"ok", "none"} => tasks[i].calls = 2

\* a finished dispatch whose first call hit a permanent error, and one that retried
C7_Witness ==
    \E i, j \in DOMAIN tasks :
        /\ tasks[i].pc = "done" /\ tasks[i].e1 = "PeerIdInvalid"
        /\ tasks[j].pc = "done" /\ tasks[j].e1 = "FloodWait" /\ tasks[j].e2 = "FloodWait"

\* C8: the dead set holds exactly the keys of the dispatches that observed
\* MessageIdInvalid / PeerIdInvalid on their first call or on their retry.
C8_DeadIffPermanent ==
    _dead_messages =
        {_msg_key(tasks[i].msg) : i \in {j \in DOMAIN tasks :
            tasks[j].e1 \in PermanentNames \/ tasks[j].e2 \in PermanentNames}}

\* one dispatch failed twice transiently, another died on its retry
C8_Witness ==
    \E i, l \in DOMAIN tasks :
        /\ tasks[i].pc = "done" /\ tasks[i].e1 = "FloodWait" /\ tasks[i].e2 = "FloodWait"
        /\ tasks[i].msg \notin _dead_messages
        /\ tasks[l].pc = "done" /\ tasks[l].e2 = "MessageIdInvalid"
        /\ tasks[l].msg \in _dead_messages

\* ---- download_video
LoopDispatches == SelectSeq(dl.log, LAMBDA d : ~d.final)
FinalDispatches == SelectSeq(dl.log, LAMBDA d : d.final)

\* C3: while the output is a stream of complete qualifying progress lines, two
\* successive dispatches of the streaming loop are at least `throttle` apart.
C3_LoopThrottle ==
    (/\ dl.buf = <<>>
     /\ \A i \in DOMAIN dl.tail_lines : LoopQualifies(dl.tail_lines[i])
     /\ \A d \in DOMAIN dl.log :
           dl.log[d].line \in {dl.tail_lines[j] : j \in DOMAIN dl.tail_lines}) =>
        \A n \in 1..(Len(LoopDispatches) - 1) :
            LoopDispatches[n + 1].at - LoopDispatches[n].at >= Throttle

\* C4: with a target and an exit code obtained, a buffered progress line means
\* exactly one terminal dispatch, made after every dispatch of the loop, for a
\* zero and for a non-zero exit code (the latter also returning failure).
C4_TerminalDispatch ==
    (dl.pc = "done" /\ dl.exited /\ dl.prog # NoMsg
       /\ LoopLine(dl.tail_lines, dl.buf) # NoLine) =>
        /\ Len(FinalDispatches) = 1
        /\ dl.log[Len(dl.log)].final
        /\ dl.rc # 0 => dl.ret = False

\* the candidate order the claim states
C6_Order(out_path) ==
    LET base == splitext(out_path)[1]
    IN  <<base>> \o (IF Len(out_path) > 1 THEN <<out_path>> ELSE <<>>)
        \o [i \in 1..6 |-> base \o << <<".mp4", ".mkv", ".webm", ".m4a", ".mp3", ".pdf">>[i] >>]

\* C6: after exit code 0 the result is the first candidate, in the stated order,
\* that is a regular file; without one, a regular file of the directory whose name
\* starts with the base name; without one, failure.
C6_Resolution ==
    (dl.pc = "done" /\ dl.exited /\ dl.rc = 0) =>
        LET c == C6_Order(dl.out_path)
            I == {i \in DOMAIN c : c[i] \in DOMAIN fs /\ fs[c[i]] = "file"}
            M == {f \in DOMAIN fs : fs[f] = "file"
                                    /\ SubSeq(f, 1, 1) = SubSeq(dl.out_path, 1, 1)}
        IN  /\ I # {} => \E i \in I : dl.ret = c[i] /\ \A j \in I : i <= j
            /\ (I = {} /\ M # {}) => dl.ret \in M
            /\ (I = {} /\ M = {}) => dl.ret = False
            /\ (dl.out_path = <<"x">> /\ DOMAIN fs = { <<"x", ".mkv">> })
                  => dl.ret = <<"x", ".mkv">>

\* the requested path x.pdf wins over x.mkv while x itself is a directory
C6_Witness ==
    /\ dl.pc = "done" /\ dl.exited /\ dl.rc = 0
    /\ dl.out_path = <<"x", ".pdf">>
    /\ DOMAIN fs = { <<"x">>, <<"x", ".mkv">>, <<"x", ".pdf">> }
    /\ fs[<<"x">>] = "dir"
    /\ dl.ret = <<"x", ".pdf">>

C9_BoundedSends ==
    /\ Len(SelectSeq(sv.sends, LAMBDA c : c.kind = "video")) <= 2
    /\ Len(SelectSeq(sv.sends, LAMBDA c : c.kind = "document")) <= 1
    /\ \A j \in DOMAIN sv.sends :
          /\ sv.sends[j].kind = "document" =>
                /\ j = 3
                /\ \A i \in 1..2 : /\ sv.sends[i].kind = "video"
                                   /\ sv.sends[i].o \in {"FloodWait", "error"}
          /\ \A i \in 1..(j - 1) : sv.sends[i].o \in {"FloodWait", "error"}

\* send_document is in flight after a rate-limited and a failed send_video
C9_Witness ==
    /\ Len(sv.sends) = 3
    /\ sv.sends[1].o = "FloodWait" /\ sv.sends[2].o = "error"
    /\ sv.sends[3].kind = "document" /\ sv.sends[3].o = "pending"

\* C10: send_vid returns True exactly when one of its send calls completed
\* without error; it returns False when the source file is missing.
C10_ResultIffSent ==
    sv.pc = "done" =>
        /\ sv.ret \in {"True", "False"}
        /\ sv.ret = "True" <=> \E i \in DOMAIN sv.sends : sv.sends[i].o = "ok"
        /\ ~sv.existed => sv.ret = "False" /\ sv.sends = <<>>

\* success through the document fallback
C10_Witness ==
    /\ sv.pc = "done" /\ sv.ret = "True"
    /\ Len(sv.sends) = 3 /\ sv.sends[3].kind = "document" /\ sv.sends[3].o = "ok"

\* C11: an attempt that fails with the rate-limit signal is followed by a sleep of
\* the signalled duration plus one second and then by another send call of the
\* same kind: the signal does not use up an attempt.
C11_FloodRetried ==
    \A i \in DOMAIN sv.sends :
        sv.sends[i].o = "FloodWait" =>
            /\ sv.slept[i] = (FloodX + 1) * 10
            /\ i = Len(sv.sends) => sv.pc = "sleep"
            /\ i < Len(sv.sends) => sv.sends[i + 1].kind = sv.sends[i].kind

\* ---- download_video and its edit tasks
\* the regular files of the destination directory that start with the base name
C12_Artifacts ==
    {f \in DOMAIN fs : fs[f] = "file" /\ SubSeq(f, 1, 1) = SubSeq(dl.out_path, 1, 1)}

\* C12: the result of download_video is fixed by the spawn, the stream, the exit
\* code and the file system, whatever the edits it scheduled did (succeeded,
\* failed, hit a dead target, still pending), and every edit task that ended
\* returned a boolean: none of them raised.
C12_ResultIgnoresEdits ==
    /\ dl.pc = "done" =>
          IF dl.exited /\ dl.rc = 0 /\ C12_Artifacts # {}
          THEN C12_Artifacts = {dl.ret}
          ELSE dl.ret = False
    /\ \A i \in DOMAIN tasks : tasks[i].pc = "done" => tasks[i].ret \in {"True", "False"}

\* the artifact is returned although one edit failed transiently and then
\* permanently and a later dispatch found the target dead
C12_Witness ==
    /\ dl.pc = "done" /\ dl.ret = <<"x", ".mkv">>
    /\ dl.prog \in _dead_messages
    /\ \E i, j \in DOMAIN tasks :
          /\ tasks[i].pc = "done" /\ tasks[i].e1 = "FloodWait"
          /\ tasks[i].e2 = "PeerIdInvalid"
          /\ tasks[j].pc = "done" /\ tasks[j].calls = 0

\* C13: the streaming loop never stands anywhere but at its read, whatever the
\* edit tasks are doing, and the stream is consumed to its end even when no edit
\* task ever takes another step.
C13_LoopNeverWaits ==
    /\ [](dl.pc \notin {"none", "spawn", "wait", "done"} => dl.pc = "read")
    /\ <>(dl.pc \in {"wait", "done"})

\* the stream was consumed to its end while one edit is in flight and another
\* is blocked on the lock of the target
C13_Witness ==
    /\ dl.pc = "wait" /\ dl.reads = MaxReads
    /\ \E i, j \in DOMAIN tasks : tasks[i].pc = "edit1" /\ tasks[j].pc = "wait"

\* C14: a zero exit without an output file is reported with a value other than
\* the one reported for a non-zero exit, a spawn failure or a stream failure.
C14_MissingFileDistinct ==
    dl.pc = "done" =>
        /\ (~dl.exited \/ dl.rc # 0) => dl.ret = False
        /\ (dl.exited /\ dl.rc = 0 /\ dl.ret \notin DOMAIN fs) => dl.ret # False

\* C15: a thumbnail supplied by the caller and used for the upload is on disk in
\* every state of the call, its end included, and os.remove is called on nothing
\* but the generated thumbnail, the rotation-fixed copy and the source file.
C15_CallerThumbKept ==
    /\ (sv.thumb # None /\ sv.thumb_path = sv.thumb) =>
          /\ sv.thumb \in DOMAIN fs
          /\ sv.thumb \notin sv.removed
          /\ sv.generated_thumb = None
    /\ sv.removed \subseteq {sv.generated_thumb, sv.fixed_file, sv.filename}

\* every attempt failed with the caller's thumbnail; the clean-up has run
C15_Witness ==
    /\ sv.pc = "done" /\ sv.ret = "False" /\ Len(sv.sends) = 3
    /\ sv.thumb = CallerThumb
    /\ \A i \in DOMAIN sv.sends : sv.sends[i].thumb = CallerThumb
    /\ sv.filename \in sv.removed

\* C17: without a rotation tag no remux is run and the original path is uploaded;
\* with a tag and a successful remux the upload source is the new file, distinct
\* from the original; with a tag and a failed remux it is the original file,
\* which is still in place.
C17_Rotation ==
    \A i \in DOMAIN sv.sends :
        LET src == sv.sends[i].file
            fixed == <<"v", ".fixed.mp4">>
            copied == sv.frc = 0 /\ sv.fwrote
        IN  /\ sv.rot = "" =>
                  /\ src = sv.filename
                  /\ fixed \notin DOMAIN fs \cup sv.removed
            /\ (sv.rot = "90" /\ copied) =>
                  /\ src # sv.filename
                  /\ sv.pc = "send" => src \in DOMAIN fs
            /\ (sv.rot = "90" /\ ~copied) =>
                  /\ src = sv.filename
                  /\ sv.pc = "send" => sv.filename \in DOMAIN fs

\* a remux that exits non-zero after writing its output: the original is sent
C17_Witness ==
    /\ sv.pc = "send" /\ sv.rot = "90" /\ sv.frc = 1 /\ sv.fwrote
    /\ sv.sends[1].file = VideoFile

\* ---- _parse_yt_line
\* C16: the call returns; a field is 0 / "" exactly when its pattern is not in the
\* line, whatever the other patterns do; the processed label is the percentage
\* with two decimals when a percentage and a total size are both in the line,
\* and "" otherwise.
C16_ParseLine ==
    yt.parsed =>
        LET line == yt.line
            pct == {i \in DOMAIN line : line[i] \in {"0.0%", "50.0%", "100.0%"}}
            first == line[CHOOSE i \in pct : \A j \in pct : i <= j]
            hasTotal == \E i \in 1..(Len(line) - 1) : line[i] = "of ~"
            hasSpeed == \E i \in 1..(Len(line) - 1) :
                            line[i] = "at" /\ line[i + 1] = "1MiB/s"
            hasEta == \E i \in 1..(Len(line) - 1) :
                          line[i] = "ETA" /\ line[i + 1] \in {"00:05", "0.0%", "50.0%"}
        IN  /\ pct = {} => yt.out.percent = 0
            /\ pct # {} => yt.out.percent = (IF first = "50.0%" THEN 500 ELSE 0)
            /\ yt.out.total = "" <=> ~hasTotal
            /\ yt.out.speed = "" <=> ~hasSpeed
            /\ yt.out.eta = "" <=> ~hasEta
            /\ yt.out.processed =
                  IF pct # {} /\ hasTotal
                  THEN (IF first = "50.0%" THEN "50.00%" ELSE "0.00%")
                  ELSE ""

\* ---- the dead set
\* C18: no step removes a key from the dead set.
C18_DeadForever == [][_dead_messages \subseteq _dead_messages']_vars

\* a dispatch that was already queued on the lock edits successfully after the
\* key was marked dead, and the key is still dead
C18_Witness ==
    \E i, j \in DOMAIN tasks :
        /\ tasks[i].pc = "done" /\ tasks[i].e1 = "MessageIdInvalid"
        /\ tasks[j].pc = "done" /\ tasks[j].e1 = "ok"
        /\ tasks[i].msg = tasks[j].msg
        /\ tasks[i].msg \in _dead_messages

\* ---- progress_bar
\* C19: two calls of progress_bar for one message that both schedule an edit are
\* at least 2.5 s apart, and a call made less than 2.5 s after the last recorded
\* edit time of its message schedules nothing.
C19_UploadThrottle ==
    /\ \A i, j \in DOMAIN pb :
          (i < j /\ pb[i].msg = pb[j].msg /\ pb[i].scheduled /\ pb[j].scheduled) =>
              pb[j].at - pb[i].at >= 25
    /\ \A i \in DOMAIN pb : pb[i].at - pb[i].last < 25 => ~pb[i].scheduled

\* a message was scheduled twice, with a call in between that scheduled nothing
C19_Witness ==
    /\ Len(pb) = 3
    /\ pb[1].msg = 1 /\ pb[2].msg = 1 /\ pb[3].msg = 1
    /\ pb[1].scheduled /\ ~pb[2].scheduled /\ pb[3].scheduled
    /\ pb[2].at > pb[1].at

\* ---- the buffers of download_video
\* C20: after every chunk the buffered lines are the last 80 completed lines at
\* most, in the order they arrived, and the trailing buffer has at most 20000
\* characters and no newline, for chunks of at most 4096 characters.
C20_BoundedBuffers ==
    LET n == Len(dl.tail_lines)
    IN  /\ n = (IF Len(dl.all) < 80 THEN Len(dl.all) ELSE 80)
        /\ \A i \in 1..n : dl.tail_lines[i] = dl.all[Len(dl.all) - n + i]
        /\ Len(dl.buf) <= 20000
        /\ \A i \in DOMAIN dl.buf : dl.buf[i] # "\n"

\* more than 80 lines have arrived and five full chunks without a newline followed
C20_Witness ==
    /\ Len(dl.all) > 80 /\ Len(dl.tail_lines) = 80
    /\ dl.reads = 6 /\ Len(dl.buf) = 20000

\* C26: for one target the edits happen in dispatch order: when a dispatch made
\* later has begun its first edit call, every dispatch made earlier for the same
\* target has finished all its edit calls (the retry included).
C26_DispatchOrder ==
    \A i, j \in DOMAIN tasks :
        (i < j /\ tasks[i].msg # NoMsg /\ tasks[i].msg = tasks[j].msg
               /\ tasks[j].calls >= 1)
            => tasks[i].pc = "done"

\* the earlier dispatch retried after its backoff, the later one has edited
C26_Witness ==
    \E i, j \in DOMAIN tasks :
        /\ i < j /\ tasks[i].msg # NoMsg /\ tasks[i].msg = tasks[j].msg
        /\ tasks[i].calls = 2 /\ tasks[i].pc = "done"
        /\ tasks[j].calls >= 1

\* C27: targets are independent: a dispatch that starts is turned away only when
\* its own target got a permanent error before, and it is kept from its edit
\* call only by a dispatch for its own target that holds or awaits the lock.
C27_KeysIndependent ==
    [][\A j \in DOMAIN tasks :
          (tasks[j].pc = "start" /\ tasks'[j].pc # "start" /\ tasks[j].msg # NoMsg) =>
              LET own == {i \in DOMAIN tasks : i # j /\ tasks[i].msg = tasks[j].msg}
                  gone == \E i \in own : tasks[i].e1 \in PermanentNames
                                         \/ tasks[i].e2 \in PermanentNames
                  busy == \E i \in own : tasks[i].pc \in
                                            {"wait", "woken", "edit1", "sleep", "edit2"}
              IN  /\ tasks'[j].pc = "done" <=> gone
                  /\ tasks'[j].pc = "edit1" <=> (~gone /\ ~busy)]_vars

\* one target's dispatch sits in its backoff, holding its lock, while a dispatch
\* made later for another target has its edit call in flight
C27_Witness ==
    \E i, j \in DOMAIN tasks :
        /\ i < j /\ tasks[i].msg # NoMsg /\ tasks[j].msg # NoMsg
        /\ tasks[i].msg # tasks[j].msg
        /\ tasks[i].pc = "sleep" /\ tasks[j].pc = "edit1"

\* C29: per key one lock object at most is ever stored, and every dispatch of
\* the key that got as far as the lock uses that object.
C29_OneLockPerKey ==
    /\ [](\A i \in DOMAIN tasks :
             tasks[i].lk # 0 =>
                 /\ _msg_key(tasks[i].msg) \in DOMAIN _edit_locks
                 /\ _edit_locks[_msg_key(tasks[i].msg)].id = tasks[i].lk)
    /\ [][\A k \in DOMAIN _edit_locks :
             k \in DOMAIN _edit_locks' /\ _edit_locks'[k].id = _edit_locks[k].id]_vars

\* two dispatches of one key were made before either ran; both hold the same lock
\* object, one inside the locked section and the other queued on it
C29_Witness ==
    /\ Len(tasks) >= 2
    /\ tasks[1].msg # NoMsg /\ tasks[1].msg = tasks[2].msg
    /\ tasks[1].pc = "edit1" /\ tasks[2].pc = "wait"
    /\ tasks[1].lk # 0 /\ tasks[1].lk = tasks[2].lk

\* C28: every step that changes the last-edit timestamp of a key, or the key's
\* membership in the dead set, is taken while a task of that key holds the
\* key's lock.
C28_WritesUnderLock ==
    [][\A k \in Keys :
          (\/ (k \in _dead_messages') # (k \in _dead_messages)
           \/ /\ k \in DOMAIN _last_edit_ts'
              /\ (k \notin DOMAIN _last_edit_ts \/ _last_edit_ts'[k] # _last_edit_ts[k]))
              => \E i \in TasksFor(k) : HoldsLock(tasks[i])]_vars

\* tokens that hold one of [download], %, eta, frag, downloading in any case
MarkedToks ==
    {"[download]", "0.0%", "50.0%", "100.0%", "eta", "ETA", "frag", "downloading",
     "Downloading"}

\* tokens that hold % or eta as written
BufMarkedToks == {"0.0%", "50.0%", "100.0%", "eta"}

\* the selection policy as stated: the most recent marked line, else the
\* trailing buffer when it holds % or eta, else nothing
PolicyLine(lines, buf) ==
    LET Q == {i \in DOMAIN lines : \E k \in DOMAIN lines[i] : lines[i][k] \in MarkedToks}
    IN  IF Q # {} THEN lines[CHOOSE i \in Q : \A j \in Q : j <= i]
        ELSE IF \E k \in DOMAIN buf : buf[k] \in BufMarkedToks THEN buf
        ELSE <<>>

\* C21: an iteration of the streaming loop dispatches the line the selection
\* policy picks from the buffers as the iteration left them, and dispatches
\* nothing when the policy picks none (or when there is no target).
C21_LoopSelection ==
    [][(dl.pc = "read" /\ dl'.reads = dl.reads + 1) =>
          LET chosen == PolicyLine(dl'.tail_lines, dl'.buf)
          IN  IF chosen = <<>> \/ dl.prog = NoMsg
              THEN dl'.log = dl.log
              ELSE dl'.log = Append(dl.log, [at |-> now, final |-> FALSE,
                                             line |-> chosen])]_vars

\* a dispatch whose line is the trailing buffer: lines are buffered, none marked
C21_Witness ==
    /\ dl.log # <<>> /\ dl.tail_lines # <<>> /\ dl.buf # <<>>
    /\ dl.log[Len(dl.log)].line = dl.buf
    /\ ~dl.log[Len(dl.log)].final

\* C23: when the run has ended with a target, the terminal dispatch renders the
\* line the loop's selection policy picks from the final buffers, and is made
\* whenever that policy picks one.
C23_TerminalSameLine ==
    (dl.pc = "done" /\ dl.exited /\ dl.prog # NoMsg) =>
        LET chosen == PolicyLine(dl.tail_lines, dl.buf)
            finals == {i \in DOMAIN dl.log : dl.log[i].final}
        IN  /\ chosen # <<>> => finals # {}
            /\ \A i \in finals : dl.log[i].line = chosen

\* C24: for every percentage from 0.0 to 999.9 the rendered bar has 18 segments,
\* floor(percent / 100 * 18) of them filled, and the filled count is at most 18.
C24_BarWidth ==
    yt.formatted =>
        /\ yt.panel.filled + yt.panel.empty = 18
        /\ yt.panel.filled = (yt.out.percent * 18) \div 1000
        /\ yt.panel.filled \in 0..18

\* C25: a call that could not spawn the child ends in failure with no read and
\* no dispatch; a call whose stream or wait raised has tried to kill the child
\* and ends in failure, also when the kill itself raised.
C25_FailurePaths ==
    dl.pc = "done" =>
        /\ (~dl.exited /\ ~dl.killed) =>
               (dl.ret = False /\ dl.reads = 0 /\ dl.log = <<>> /\ tasks = <<>>)
        /\ ~dl.exited /\ dl.reads > 0 => dl.killed
        /\ dl.killed => dl.ret = False

\* the stream failed after a dispatch and the kill raised as well
C25_Witness ==
    /\ dl.pc = "done" /\ dl.killed /\ dl.kill_raised
    /\ dl.log # <<>> /\ dl.ret = False

\* C22: once a dispatch has been made for the target, every iteration of the
\* loop that finds the throttle interval elapsed since that dispatch makes a
\* dispatch of its own.
C22_ForcedInterval ==
    [][(/\ dl.pc = "read" /\ dl'.reads = dl.reads + 1
        /\ dl.prog # NoMsg /\ dl.log # <<>>
        /\ now - dl.last_edit >= Throttle)
          => Len(dl'.log) = Len(dl.log) + 1]_vars

\* C30: every send call gets the rotation-fixed copy when one was produced and
\* the original otherwise, and that file is the one probed; until the last
\* attempt is over nothing has been removed: the original, the copy and the
\* thumbnail of every send call made so far are still there.
C30_UploadSource ==
    LET fixed == <<"v", ".fixed.mp4">>
        produced == sv.rot = "90" /\ sv.frc = 0 /\ sv.fwrote
        src == IF produced THEN fixed ELSE sv.filename
    IN  /\ \A i \in DOMAIN sv.sends : sv.sends[i].file = src
        /\ sv.sends # <<>> => sv.probed = src
        /\ sv.pc \in {"send", "sleep", "replyFailed"} =>
              /\ sv.removed = {}
              /\ sv.filename \in DOMAIN fs
              /\ produced => fixed \in DOMAIN fs
              /\ \A i \in DOMAIN sv.sends :
                    sv.sends[i].thumb # None => sv.sends[i].thumb \in DOMAIN fs

\* the third send call, of the copy with a generated thumbnail, is in flight
C30_Witness ==
    /\ sv.pc = "send" /\ Len(sv.sends) = 3
    /\ sv.fixed_file = <<"v", ".fixed.mp4">> /\ sv.generated_thumb # None
    /\ sv.sends[3].file = sv.fixed_file /\ sv.sends[3].thumb = sv.generated_thumb
    /\ {sv.filename, sv.fixed_file, sv.generated_thumb} \subseteq DOMAIN fs

\* C31: when the source file exists, send_vid gets past its preparation whatever
\* fails there: nothing is raised, the first call is a send_video call, and it
\* carries no thumbnail when the thumbnail failed, the original file when the
\* rotation probe or the remux failed, no dimensions when their probe failed and
\* the duration 0 when the duration probe failed.
C31_PostProcessingNotFatal ==
    (sv.existed /\ sv.pc \notin {"none", "start", "replyUploading"}) =>
        /\ sv.ret # "raise"
        /\ sv.sends # <<>>
        /\ LET first == sv.sends[1]
               thumbFailed == sv.thumb \notin DOMAIN fs /\ (sv.trc # 0 \/ ~sv.twrote)
               rotFailed == \/ sv.rot = "raise"
                            \/ sv.rot = "90" /\ (sv.frc # 0 \/ ~sv.fwrote)
           IN  /\ first.kind = "video"
               /\ thumbFailed => first.thumb = None
               /\ rotFailed => first.file = sv.filename
               /\ sv.wh = "fail" => first.dims = "none"
               /\ first.duro = "fail" => first.dur = "zero"

\* everything failed at once and the first send_video call is in flight
C31_Witness ==
    /\ sv.existed /\ sv.pc = "send" /\ Len(sv.sends) = 1
    /\ sv.thumb = None /\ sv.trc = 1
    /\ sv.rot = "raise" /\ sv.wh = "fail"
    /\ sv.sends[1].duro = "fail" /\ sv.sends[1].kind = "video"
    /\ sv.sends[1].thumb = None /\ sv.sends[1].file = sv.filename

\* C32: every dispatch that was scheduled completes, and from some point on no
\* lock is held and no dispatch waits on a lock.
C32_LocksReleased ==
    /\ \A i \in 1..MaxTasks : [](Len(tasks) >= i => <>(Len(tasks) >= i /\ tasks[i].pc = "done"))
    /\ <>[](\A k \in DOMAIN _edit_locks :
                ~_edit_locks[k].locked /\ _edit_locks[k].waiters = <<>>)

\* a dispatch whose retry failed too has completed, the dispatch that queued
\* behind it has made its edit and completed, and the lock is free again
C32_Witness ==
    /\ Len(tasks) >= 2 /\ tasks[1].msg # NoMsg /\ tasks[1].msg = tasks[2].msg
    /\ tasks[1].pc = "done" /\ tasks[1].e1 = "FloodWait" /\ tasks[1].e2 = "FloodWait"
    /\ tasks[2].pc = "done" /\ tasks[2].calls >= 1
    /\ ~_edit_locks[tasks[1].msg].locked /\ _edit_locks[tasks[1].msg].waiters = <<>>

====
